---------------------------- MODULE Spec2Model ----------------------------
(***************************************************************************)
(* A model of src/main.cpp of BotwController: the capacitive touch sensor  *)
(* (timeSensePinChargeDischarge, waitForPedestalTouch) and the light       *)
(* sequencer (setup, loop).  The program is one sequential flow; pc is the *)
(* position of that flow.                                                  *)
(*                                                                         *)
(* Four specifications share the definitions:                              *)
(*   Spec       the whole program, from the state setup() leaves behind;   *)
(*   SpecLive   Spec with the sequencer's steps weakly fair;               *)
(*   SpecSense  timeSensePinChargeDischarge called on its own with every   *)
(*              accumulator start value and timeout of a bounded set;      *)
(*   SpecFade   fadeToBlackBy applied repeatedly to a solid frame.         *)
(***************************************************************************)
EXTENDS Integers, Sequences, FiniteSets

VARIABLES
    pc,                 \* position of the single flow of control
    \* ---- light sequencer (main.cpp 28, 125, 135, 136)
    lightState,         \* LightState lightState
    leds,               \* CRGB leds[LED_COUNT]
    fadeTimer,          \* fadeTimer: ms elapsed since mPrevTrigger, kept up to mPeriod
    fadeInColor,        \* static CRGB fadeInColor
    shown,              \* the frame FastLED.show() last wrote to the strip
    frames,             \* the frames FastLED.show() wrote during the latest step
    ticks,              \* ready() ticks taken since the last fadeTimer.reset()
    visited,            \* the values lightState has taken in the current cycle
    phaseMillis,        \* in FadeOut and FadeIn: ms since the phase began, kept up to mPeriod
    \* ---- waitForPedestalTouch (main.cpp 102-114)
    sequentialTouches,  \* uint8_t sequentialTouches
    nSamples,           \* samples classified in the current wait
    nQualifying,        \* how many of them were below TOUCH_SAMPLE_TIMEOUT / 5
    lastDisqualifying,  \* index of the last sample that was not (0: none)
    waitResult,         \* what waitForPedestalTouch returned: "true", "false", or "none"
    \* ---- timeSensePinChargeDischarge (main.cpp 37-98)
    accumulator,        \* uint32_t& accumulator (totalCounts of the caller)
    timeout,            \* uint32_t timeout
    DDRB,               \* port B direction register, as the set of its 1-bits
    PORTB,              \* port B data register, as the set of its 1-bits
    interrupts,         \* TRUE while the global interrupt flag is set
    result,             \* value of the last return statement ("none" before)
    timedOut,           \* a count loop has ended with accumulator >= timeout
    acc0,               \* the accumulator value on entry of the current call
    ddrb0,              \* DDRB on entry of the current call
    portb0,             \* PORTB on entry of the current call
    bursts,             \* bursts of loop iterations taken during the current call
    retTo,              \* pc at which the caller continues
    \* ---- SpecFade
    fade0               \* the colour the repeated fade started from

seqVars   == <<lightState, leds, fadeTimer, fadeInColor, shown, frames, ticks, visited,
               phaseMillis>>
waitVars  == <<sequentialTouches, nSamples, nQualifying, lastDisqualifying, waitResult>>
senseVars == <<accumulator, timeout, DDRB, PORTB, interrupts, result, timedOut,
               acc0, ddrb0, portb0, bursts, retTo>>
vars      == <<pc, seqVars, waitVars, senseVars, fade0>>

-----------------------------------------------------------------------------
(* Program constants                                                        *)

TOUCH_SAMPLE_TIMEOUT == 100000

SEQUENTIAL_TOUCH_SAMPLES_TO_TRIGGER == 5

LED_COUNT == 5

FADE_PERIOD == 20

FADE_BY == 20

FADE_IN_STEP == 20

(* Bounds of the model                                                      *)

\* samples one wait may take before the pad is left alone
MaxSamples == 10

\* bursts of count-loop iterations during one measurement
MaxBursts == 2

\* largest timeout SpecSense calls the measurement with
MaxT == 3

\* ready() ticks counted since the last reset (the counter saturates here)
MaxTicks == 48

\* fade steps SpecFade applies to one colour
MaxFadeTicks == 46

\* How many iterations of a count loop one step of the model runs.  The
\* loops run up to TOUCH_SAMPLE_TIMEOUT iterations; a burst of n is n
\* consecutive iterations in which the loop test was true.
CountBursts == {1, 19999, 99999}

\* Milliseconds that pass between two consecutive looks at the fade timer.
LoopMillis == {0, 1, 7, 20}

\* Register contents SpecSense starts a measurement from.
RegValues == {{}, {0, 1}, {3, 5, 7}, 0..7}

\* Channel values of the colours SpecFade starts from.
FadeChannels == {0, 1, 85, 255}

Min(a, b) == IF a < b THEN a ELSE b

-----------------------------------------------------------------------------
(* Colours (FastLED CRGB: three uint8_t channels)                           *)

\* CRGB(uint32_t colorcode): r = bits 16..23, g = bits 8..15, b = bits 0..7
CRGB(colorcode) ==
    [r |-> (colorcode \div 65536) % 256,
     g |-> (colorcode \div 256) % 256,
     b |-> colorcode % 256]

RGB_TO_GRB(r, g, b) == g * 65536 + r * 256 + b

SHRINE_ORANGE == RGB_TO_GRB(255, 85, 0)

Black == CRGB(0)

Blue == CRGB(255)

\* fill_solid that stops one LED short
fillAllButLast(color) == [i \in 1..LED_COUNT |-> IF i < LED_COUNT THEN color ELSE CRGB(0)]

fill_solid(color) == [i \in 1..LED_COUNT |-> color]

\* scale8 (FastLED lib8tion, FASTLED_SCALE8_FIXED): i * (scale + 1) / 256
scale8(i, scale) == (i * (1 + scale)) \div 256

nscale8(c, scale) ==
    [r |-> scale8(c.r, scale), g |-> scale8(c.g, scale), b |-> scale8(c.b, scale)]

\* a fade that subtracts fadeBy from every channel and stops at zero
fadeBySubtracting(ls, fadeBy) ==
    [i \in 1..LED_COUNT |->
        [r |-> IF ls[i].r > fadeBy THEN ls[i].r - fadeBy ELSE 0,
         g |-> IF ls[i].g > fadeBy THEN ls[i].g - fadeBy ELSE 0,
         b |-> IF ls[i].b > fadeBy THEN ls[i].b - fadeBy ELSE 0]]

\* a fade that subtracts fadeBy in 8-bit arithmetic, without stopping at zero
fadeByWrapping(ls, fadeBy) ==
    [i \in 1..LED_COUNT |->
        [r |-> (ls[i].r + 256 - fadeBy) % 256,
         g |-> (ls[i].g + 256 - fadeBy) % 256,
         b |-> (ls[i].b + 256 - fadeBy) % 256]]

\* fadeToBlackBy(leds, n, fadeBy) is nscale8(leds, n, 255 - fadeBy)
fadeToBlackBy(ls, fadeBy) == [i \in 1..LED_COUNT |-> nscale8(ls[i], 255 - fadeBy)]

\* uint8_t b += step
AddU8(b, step) == (b + step) % 256

-----------------------------------------------------------------------------
(* Port registers: a mask is the set of its 1-bits                          *)

Bits(mask) == {i \in 0..7 : (mask \div (2 ^ i)) % 2 = 1}

SetBits(reg, mask) == reg \cup Bits(mask)

ClearBits(reg, mask) == reg \ Bits(mask)

-----------------------------------------------------------------------------
(* timeSensePinChargeDischarge, main.cpp 37-98                              *)

\* CountLoopTest without the cap: only the pin ends a loop
CountLoopTestPinOnly(pinSaysCount, acc, t) == pinSaysCount

\* line 68: (PINB & 0x01) == 0 && accumulator < timeout, and line 87 with
\* (PINB & 0x01) != 0.  pinSaysCount is what the read of PINB contributes.
CountLoopTest(pinSaysCount, acc, t) == pinSaysCount /\ acc < t

\* ReturnValue with the comparison off by one
ReturnValueAtMost(acc, t) == acc <= t

\* ReturnValue that reports success whatever the accumulator holds
ReturnValueAlways(acc, t) == TRUE

\* line 97: return accumulator < timeout
ReturnValue(acc, t) == acc < t

\* lines 40-42 and 55-61: PB1 low and PB0 an input without pull-up, then PB0
\* driven low for 10 us, released, and PB1 driven high
SetupDDRB(ddrb) ==
    LET d1 == SetBits(ddrb, 2)        \* 40  DDRB |= 0x02
        d2 == ClearBits(d1, 1)        \* 41  DDRB &= ~0x01
        d3 == ClearBits(d2, 1)        \* 56  DDRB &= ~0x01
        d4 == SetBits(d3, 1)          \* 57  DDRB |= 0x01
    IN  ClearBits(d4, 1)              \* 60  DDRB &= ~0x01

SetupPORTB(portb) ==
    LET p1 == ClearBits(portb, 3)     \* 42  PORTB &= ~0x03
        p2 == ClearBits(p1, 2)        \* 55  PORTB &= ~0x02
        p3 == ClearBits(p2, 1)        \* 58  PORTB &= ~0x01
    IN  SetBits(p3, 2)                \* 61  PORTB |= 0x02

\* lines 78-84: PB0 driven high for 10 us, released, PB0 and PB1 low; line 84
\* stands outside the #if DEBUG_TOUCH_SENSING blocks and is always compiled
ChargeDDRB(ddrb) ==
    LET d1 == SetBits(ddrb, 1)        \* 78  DDRB |= 0x01
    IN  ClearBits(d1, 1)              \* 81  DDRB &= ~0x01

ChargePORTB(portb) ==
    LET p1 == SetBits(portb, 1)       \* 79  PORTB |= 0x01
        p2 == ClearBits(p1, 3)        \* 82  PORTB &= ~0x03
    IN  SetBits(p2, 16)               \* 84  PORTB |= 0x10

\* cli() at line 52 and sei() at line 95: the flag after each
InterruptsAfterCli == FALSE

\* the return path without sei()
InterruptsLeftOff == FALSE

InterruptsAfterSei == TRUE

\* Entry, lines 40-61: pin setup, cli(), discharge; control is then at the
\* test of the rising loop.
SenseEnter ==
    /\ pc = "s_enter"
    /\ DDRB' = SetupDDRB(DDRB)
    /\ PORTB' = SetupPORTB(PORTB)
    /\ interrupts' = InterruptsAfterCli
    /\ acc0' = accumulator
    /\ ddrb0' = DDRB
    /\ portb0' = PORTB
    /\ bursts' = 0
    /\ timedOut' = FALSE
    /\ result' = "none"
    /\ pc' = "s_rise"
    /\ UNCHANGED <<accumulator, timeout, retTo, seqVars, waitVars, fade0>>

\* lines 68-70: n iterations of the rising loop, PB0 reading low each time
RiseCount ==
    /\ pc = "s_rise"
    /\ bursts < MaxBursts
    /\ \E n \in CountBursts :
          /\ CountLoopTest(TRUE, accumulator + n - 1, timeout)
          /\ accumulator' = accumulator + n
    /\ bursts' = bursts + 1
    /\ UNCHANGED <<pc, timeout, DDRB, PORTB, interrupts, result, timedOut, acc0,
                   ddrb0, portb0, retTo, seqVars, waitVars, fade0>>

\* line 68 false (PB0 reads high, or the accumulator is at the timeout), then
\* lines 78-84; control is then at the test of the falling loop.
RiseExit ==
    /\ pc = "s_rise"
    /\ \E pinLow \in BOOLEAN : ~CountLoopTest(pinLow, accumulator, timeout)
    /\ timedOut' = (timedOut \/ accumulator >= timeout)
    /\ DDRB' = ChargeDDRB(DDRB)
    /\ PORTB' = ChargePORTB(PORTB)
    /\ pc' = "s_fall"
    /\ UNCHANGED <<accumulator, timeout, interrupts, result, acc0, ddrb0, portb0,
                   bursts, retTo, seqVars, waitVars, fade0>>

\* lines 87-89: n iterations of the falling loop, PB0 reading high each time
FallCount ==
    /\ pc = "s_fall"
    /\ bursts < MaxBursts
    /\ \E n \in CountBursts :
          /\ CountLoopTest(TRUE, accumulator + n - 1, timeout)
          /\ accumulator' = accumulator + n
    /\ bursts' = bursts + 1
    /\ UNCHANGED <<pc, timeout, DDRB, PORTB, interrupts, result, timedOut, acc0,
                   ddrb0, portb0, retTo, seqVars, waitVars, fade0>>

\* line 87 false, then sei() and the return, lines 95-97
FallExit ==
    /\ pc = "s_fall"
    /\ \E pinHigh \in BOOLEAN : ~CountLoopTest(pinHigh, accumulator, timeout)
    /\ timedOut' = (timedOut \/ accumulator >= timeout)
    /\ interrupts' = InterruptsAfterSei
    /\ result' = ReturnValue(accumulator, timeout)
    /\ pc' = retTo
    /\ UNCHANGED <<accumulator, timeout, DDRB, PORTB, acc0, ddrb0, portb0, bursts,
                   retTo, seqVars, waitVars, fade0>>

SenseNext == SenseEnter \/ RiseCount \/ RiseExit \/ FallCount \/ FallExit

-----------------------------------------------------------------------------
(* waitForPedestalTouch, main.cpp 102-114                                   *)

\* the threshold test against the whole timeout, inclusive
BelowTimeoutInclusive(totalCounts) == totalCounts <= TOUCH_SAMPLE_TIMEOUT

\* line 107: totalCounts < TOUCH_SAMPLE_TIMEOUT / 5
BelowTouchThreshold(totalCounts) == totalCounts < TOUCH_SAMPLE_TIMEOUT \div 5

\* TouchesAfterSample that keeps the count over a disqualifying sample
TouchesNotReset(touches, totalCounts) ==
    IF totalCounts < TOUCH_SAMPLE_TIMEOUT \div 5 THEN touches + 1 ELSE touches

\* lines 107-111: the counter after a sample
TouchesAfterSample(touches, totalCounts) ==
    IF BelowTouchThreshold(totalCounts) THEN touches + 1 ELSE 0

\* WaitLoopTest that asks for one sample more
WaitLoopTestOneMore(touches) == touches <= SEQUENTIAL_TOUCH_SAMPLES_TO_TRIGGER

\* line 104: sequentialTouches < SEQUENTIAL_TOUCH_SAMPLES_TO_TRIGGER
WaitLoopTest(touches) == touches < SEQUENTIAL_TOUCH_SAMPLES_TO_TRIGGER

\* the sample is qualifying in the sense of the specification
QualifyingSample(totalCounts) == 5 * totalCounts < TOUCH_SAMPLE_TIMEOUT

\* line 113: return true
WaitReturnValue == "true"

\* lines 104-106: the loop test holds; a sample starts from a zeroed total
WaitSample ==
    /\ pc = "w_loop"
    /\ WaitLoopTest(sequentialTouches)
    /\ nSamples < MaxSamples
    /\ accumulator' = 0
    /\ timeout' = TOUCH_SAMPLE_TIMEOUT
    /\ retTo' = "w_check"
    /\ pc' = "s_enter"
    /\ UNCHANGED <<DDRB, PORTB, interrupts, result, timedOut, acc0, ddrb0, portb0,
                   bursts, seqVars, waitVars, fade0>>

\* lines 107-111: the return value of the measurement is dropped, the total
\* is compared with the threshold
WaitClassify ==
    /\ pc = "w_check"
    /\ sequentialTouches' = TouchesAfterSample(sequentialTouches, accumulator)
    /\ nSamples' = nSamples + 1
    /\ nQualifying' = nQualifying + (IF QualifyingSample(accumulator) THEN 1 ELSE 0)
    /\ lastDisqualifying' =
          IF QualifyingSample(accumulator) THEN lastDisqualifying ELSE nSamples + 1
    /\ pc' = "w_loop"
    /\ UNCHANGED <<waitResult, senseVars, seqVars, fade0>>

\* WaitReturn in which the sensor itself advances the light state
WaitReturnSettingState ==
    /\ pc = "w_loop"
    /\ ~WaitLoopTest(sequentialTouches)
    /\ waitResult' = WaitReturnValue
    /\ lightState' = "OrangeSet"
    /\ pc' = "touched"
    /\ UNCHANGED <<sequentialTouches, nSamples, nQualifying, lastDisqualifying,
                   senseVars, leds, fadeTimer, fadeInColor, shown, frames, ticks,
                   visited, phaseMillis, fade0>>

\* line 104 false, line 113: return true
WaitReturn ==
    /\ pc = "w_loop"
    /\ ~WaitLoopTest(sequentialTouches)
    /\ waitResult' = WaitReturnValue
    /\ pc' = "touched"
    /\ UNCHANGED <<sequentialTouches, nSamples, nQualifying, lastDisqualifying,
                   senseVars, seqVars, fade0>>

WaitNext == WaitSample \/ WaitClassify \/ WaitReturn

-----------------------------------------------------------------------------
(* The light sequencer: setup and loop, main.cpp 116-191                    *)

\* enum LightState, lines 116-124, in declaration order
LightStates ==
    <<"Inactive", "OrangeSet", "FadeOut", "BetweenFades", "FadeIn", "BlueSet",
      "IdleUntilTouchFinished">>

\* CEveryNMillis: getElapsed() after ms more milliseconds.  ready() only
\* compares the elapsed time with mPeriod, so it is kept up to mPeriod.
Elapse(elapsed, ms) == Min(elapsed + ms, FADE_PERIOD)

\* CEveryNMillis::ready(): getElapsed() >= mPeriod
TimerReady(elapsed) == elapsed >= FADE_PERIOD

\* CEveryNMillis::reset(): mPrevTrigger = getTime(), nothing has elapsed
TimerReset == 0

\* the timer with the reset of line 148 missing: it ran through the hold
TimerLeftRunning == Elapse(fadeTimer, 1000)

\* line 148: fadeTimer.reset() after FastLED.delay(1000)
TimerAfterOrangeSet == TimerReset

\* line 163: fadeTimer.reset() after FastLED.delay(250)
TimerAfterBetweenFades == TimerReset

\* line 155: (leds[0].r == 0 || leds[0].g == 0) && leds[0].b == 0
FadeOutDone(led) == (led.r = 0 \/ led.g = 0) /\ led.b = 0

\* FadeInDone that waits for the channel to be full
FadeInDoneAtFull(led) == led.b >= 255

\* FadeInDone with the step added instead of subtracted: never true of a uint8_t
FadeInDoneNever(led) == led.b >= 255 + FADE_IN_STEP

\* line 173: leds[0].b >= (255 - step)
FadeInDone(led) == led.b >= 255 - FADE_IN_STEP

\* line 170: fadeInColor.b += step
FadeInStep(c) == [c EXCEPT !.b = AddU8(c.b, FADE_IN_STEP)]

\* the cycle so far, after lightState is assigned s
Visit(s) ==
    IF s = lightState THEN visited
    ELSE IF lightState = "Inactive" THEN <<"Inactive", s>>
    ELSE Append(visited, s)

\* the targets of the assignments to lightState, lines 144-187
AfterInactive == "OrangeSet"

AfterOrangeSet == "FadeOut"

AfterFadeOut == "BetweenFades"

\* BetweenFades handing over to the wrong state
AfterBetweenFadesSkipping == "BlueSet"

AfterBetweenFades == "FadeIn"

AfterFadeIn == "BlueSet"

AfterBlueSet == "IdleUntilTouchFinished"

AfterIdleUntilTouchFinished == "Inactive"

\* the frames the cases write: lines 142, 161, 174, 182
InactiveFrame == fill_solid(CRGB(SHRINE_ORANGE))

\* BetweenFades without its fill_solid
BetweenFadesFrameKept == leds

BetweenFadesFrame == fill_solid(Black)

BlueSetSnapFrame == fill_solid(Blue)

\* BlueSet without its fill_solid
AfterBlueFrameKept == leds

AfterBlueFrame == fill_solid(Black)

\* case Inactive, line 140: the call of waitForPedestalTouch (line 103)
LoopInactive ==
    /\ pc = "loop"
    /\ lightState = "Inactive"
    /\ sequentialTouches' = 0
    /\ nSamples' = 0
    /\ nQualifying' = 0
    /\ lastDisqualifying' = 0
    /\ waitResult' = "none"
    /\ frames' = <<>>
    /\ pc' = "w_loop"
    /\ UNCHANGED <<lightState, leds, fadeTimer, fadeInColor, shown, ticks, visited, phaseMillis,
                   senseVars, fade0>>

\* case Inactive, lines 141-145, once waitForPedestalTouch has returned
TouchConfirmed ==
    /\ pc = "touched"
    /\ leds' = InactiveFrame
    /\ shown' = leds'
    /\ frames' = <<leds'>>
    /\ lightState' = AfterInactive
    /\ visited' = Visit(AfterInactive)
    /\ pc' = "loop"
    /\ UNCHANGED <<fadeTimer, fadeInColor, ticks, phaseMillis, waitVars, senseVars, fade0>>

\* case OrangeSet, lines 146-150: FastLED.delay(1000) keeps showing the frame
LoopOrangeSet ==
    /\ pc = "loop"
    /\ lightState = "OrangeSet"
    /\ shown' = leds
    /\ frames' = <<leds>>
    /\ fadeTimer' = TimerAfterOrangeSet
    /\ phaseMillis' = 0
    /\ ticks' = 0
    /\ lightState' = AfterOrangeSet
    /\ visited' = Visit(AfterOrangeSet)
    /\ UNCHANGED <<pc, leds, fadeInColor, waitVars, senseVars, fade0>>

\* LoopFadeOut with the fade and the show outside the if of line 152
LoopFadeOutUnguarded ==
    /\ pc = "loop"
    /\ lightState = "FadeOut"
    /\ \E ms \in LoopMillis :
          /\ phaseMillis' = Elapse(phaseMillis, ms)
          /\ IF TimerReady(Elapse(fadeTimer, ms))
             THEN /\ fadeTimer' = TimerReset
                  /\ ticks' = Min(ticks + 1, MaxTicks)
             ELSE /\ fadeTimer' = Elapse(fadeTimer, ms)
                  /\ UNCHANGED ticks
    /\ leds' = fadeToBlackBy(leds, FADE_BY)
    /\ shown' = leds'
    /\ frames' = <<leds'>>
    /\ IF FadeOutDone(leds'[1])
       THEN /\ lightState' = AfterFadeOut
            /\ visited' = Visit(AfterFadeOut)
       ELSE UNCHANGED <<lightState, visited>>
    /\ UNCHANGED <<pc, fadeInColor, waitVars, senseVars, fade0>>

\* case FadeOut, lines 151-159; ms is the time since the previous iteration
LoopFadeOut ==
    /\ pc = "loop"
    /\ lightState = "FadeOut"
    /\ \E ms \in LoopMillis :
          /\ phaseMillis' = Elapse(phaseMillis, ms)
          /\ IF TimerReady(Elapse(fadeTimer, ms))
             THEN /\ fadeTimer' = TimerReset
                  /\ ticks' = Min(ticks + 1, MaxTicks)
                  /\ leds' = fadeToBlackBy(leds, FADE_BY)
                  /\ shown' = leds'
                  /\ frames' = <<leds'>>
                  /\ IF FadeOutDone(leds'[1])
                     THEN /\ lightState' = AfterFadeOut
                          /\ visited' = Visit(AfterFadeOut)
                     ELSE UNCHANGED <<lightState, visited>>
             ELSE /\ fadeTimer' = Elapse(fadeTimer, ms)
                  /\ frames' = <<>>
                  /\ UNCHANGED <<ticks, leds, shown, lightState, visited>>
    /\ UNCHANGED <<pc, fadeInColor, waitVars, senseVars, fade0>>

\* case BetweenFades, lines 160-166: FastLED.delay(250) shows the black frame
LoopBetweenFades ==
    /\ pc = "loop"
    /\ lightState = "BetweenFades"
    /\ leds' = BetweenFadesFrame
    /\ shown' = leds'
    /\ frames' = <<leds'>>
    /\ fadeTimer' = TimerAfterBetweenFades
    /\ phaseMillis' = 0
    /\ ticks' = 0
    /\ fadeInColor' = Black
    /\ lightState' = AfterBetweenFades
    /\ visited' = Visit(AfterBetweenFades)
    /\ UNCHANGED <<pc, waitVars, senseVars, fade0>>

\* case FadeIn, lines 167-179
LoopFadeIn ==
    /\ pc = "loop"
    /\ lightState = "FadeIn"
    /\ \E ms \in LoopMillis :
          /\ phaseMillis' = Elapse(phaseMillis, ms)
          /\ IF TimerReady(Elapse(fadeTimer, ms))
             THEN /\ fadeTimer' = TimerReset
                  /\ ticks' = Min(ticks + 1, MaxTicks)
                  /\ fadeInColor' = FadeInStep(fadeInColor)
                  /\ IF FadeInDone(fill_solid(fadeInColor')[1])
                     THEN /\ leds' = BlueSetSnapFrame
                          /\ frames' = <<fill_solid(fadeInColor'), leds'>>
                          /\ lightState' = AfterFadeIn
                          /\ visited' = Visit(AfterFadeIn)
                     ELSE /\ leds' = fill_solid(fadeInColor')
                          /\ frames' = <<leds'>>
                          /\ UNCHANGED <<lightState, visited>>
                  /\ shown' = leds'
             ELSE /\ fadeTimer' = Elapse(fadeTimer, ms)
                  /\ frames' = <<>>
                  /\ UNCHANGED <<ticks, fadeInColor, leds, shown, lightState, visited>>
    /\ UNCHANGED <<pc, waitVars, senseVars, fade0>>

\* case BlueSet, lines 180-185: FastLED.delay(5000) shows the blue frame
LoopBlueSet ==
    /\ pc = "loop"
    /\ lightState = "BlueSet"
    /\ fadeTimer' = Elapse(fadeTimer, 5000)
    /\ leds' = AfterBlueFrame
    /\ shown' = leds'
    /\ frames' = <<leds, leds'>>
    /\ lightState' = AfterBlueSet
    /\ visited' = Visit(AfterBlueSet)
    /\ UNCHANGED <<pc, fadeInColor, ticks, phaseMillis, waitVars, senseVars, fade0>>

\* case IdleUntilTouchFinished, lines 186-188
LoopIdleUntilTouchFinished ==
    /\ pc = "loop"
    /\ lightState = "IdleUntilTouchFinished"
    /\ frames' = <<>>
    /\ lightState' = AfterIdleUntilTouchFinished
    /\ visited' = Visit(AfterIdleUntilTouchFinished)
    /\ UNCHANGED <<pc, leds, fadeTimer, fadeInColor, shown, ticks, phaseMillis, waitVars,
                   senseVars, fade0>>

LoopNext ==
    \/ LoopInactive
    \/ TouchConfirmed
    \/ LoopOrangeSet
    \/ LoopFadeOut
    \/ LoopBetweenFades
    \/ LoopFadeIn
    \/ LoopBlueSet
    \/ LoopIdleUntilTouchFinished

-----------------------------------------------------------------------------
(* The whole program                                                        *)

\* The state when loop() is first entered: setup (lines 127-132) has shown a
\* black frame, the statics are zero, fadeTimer has just been constructed,
\* interrupts are on, and of port B only the LED data pin is an output.
Init ==
    /\ pc = "loop"
    /\ lightState = LightStates[1]
    /\ leds = fill_solid(Black)
    /\ shown = fill_solid(Black)
    /\ frames = <<fill_solid(Black)>>
    /\ fadeTimer = TimerReset
    /\ fadeInColor = Black
    /\ ticks = 0
    /\ visited = <<LightStates[1]>>
    /\ sequentialTouches = 0
    /\ nSamples = 0
    /\ nQualifying = 0
    /\ lastDisqualifying = 0
    /\ waitResult = "none"
    /\ phaseMillis = 0
    /\ accumulator = 0
    /\ timeout = TOUCH_SAMPLE_TIMEOUT
    /\ DDRB = Bits(8)
    /\ PORTB = {}
    /\ interrupts = TRUE
    /\ result = "none"
    /\ timedOut = FALSE
    /\ acc0 = 0
    /\ ddrb0 = DDRB
    /\ portb0 = PORTB
    /\ bursts = 0
    /\ retTo = "w_check"
    /\ fade0 = Black

Next == LoopNext \/ WaitNext \/ SenseNext

Spec == Init /\ [][Next]_vars

\* The program with the sequencer's own steps weakly fair: the three holds
\* end, loop() keeps being run and the clock keeps advancing, so the timer
\* keeps becoming ready.  Nothing is assumed of the touch wait.
SpecLive ==
    /\ Init
    /\ [][Next]_vars
    /\ WF_vars(TouchConfirmed)
    /\ WF_vars(LoopOrangeSet)
    /\ WF_vars(LoopFadeOut)
    /\ WF_vars(LoopBetweenFades)
    /\ WF_vars(LoopFadeIn)
    /\ WF_vars(LoopBlueSet)
    /\ WF_vars(LoopIdleUntilTouchFinished)

-----------------------------------------------------------------------------
(* timeSensePinChargeDischarge on its own: every start value and timeout of *)
(* the bounded sets and the program's timeout, any register contents of     *)
(* RegValues, interrupts on or off                                          *)

InitSense ==
    /\ pc = "s_enter"
    /\ accumulator \in 0..(MaxT + 1) \cup {TOUCH_SAMPLE_TIMEOUT - 1, TOUCH_SAMPLE_TIMEOUT}
    /\ timeout \in 1..MaxT \cup {TOUCH_SAMPLE_TIMEOUT}
    /\ DDRB \in RegValues
    /\ PORTB \in RegValues
    /\ interrupts \in BOOLEAN
    /\ retTo = "returned"
    /\ result = "none"
    /\ timedOut = FALSE
    /\ acc0 = accumulator
    /\ ddrb0 = DDRB
    /\ portb0 = PORTB
    /\ bursts = 0
    /\ lightState = LightStates[1]
    /\ leds = fill_solid(Black)
    /\ shown = fill_solid(Black)
    /\ frames = <<>>
    /\ fadeTimer = TimerReset
    /\ fadeInColor = Black
    /\ ticks = 0
    /\ visited = <<LightStates[1]>>
    /\ sequentialTouches = 0
    /\ nSamples = 0
    /\ nQualifying = 0
    /\ lastDisqualifying = 0
    /\ waitResult = "none"
    /\ phaseMillis = 0
    /\ fade0 = Black

SpecSense == InitSense /\ [][SenseNext]_vars

-----------------------------------------------------------------------------
(* fadeToBlackBy applied again and again to one solid frame                 *)

InitFade ==
    /\ pc = "fade"
    /\ fade0 \in [r : FadeChannels, g : FadeChannels, b : FadeChannels]
    /\ leds = fill_solid(fade0)
    /\ ticks = 0
    /\ lightState = LightStates[3]
    /\ shown = leds
    /\ frames = <<>>
    /\ fadeTimer = TimerReset
    /\ fadeInColor = Black
    /\ visited = <<LightStates[1]>>
    /\ sequentialTouches = 0
    /\ nSamples = 0
    /\ nQualifying = 0
    /\ lastDisqualifying = 0
    /\ waitResult = "none"
    /\ phaseMillis = 0
    /\ accumulator = 0
    /\ timeout = TOUCH_SAMPLE_TIMEOUT
    /\ DDRB = Bits(8)
    /\ PORTB = {}
    /\ interrupts = TRUE
    /\ result = "none"
    /\ timedOut = FALSE
    /\ acc0 = 0
    /\ ddrb0 = DDRB
    /\ portb0 = PORTB
    /\ bursts = 0
    /\ retTo = "w_check"

\* line 153 on its own
FadeStep ==
    /\ pc = "fade"
    /\ ticks < MaxFadeTicks
    /\ leds' = fadeToBlackBy(leds, FADE_BY)
    /\ ticks' = ticks + 1
    /\ UNCHANGED <<pc, lightState, fadeTimer, fadeInColor, shown, frames, visited, phaseMillis,
                   waitVars, senseVars, fade0>>

SpecFade == InitFade /\ [][FadeStep]_vars

-----------------------------------------------------------------------------
(* Properties                                                               *)

AllLeds(ls, color) == \A i \in 1..LED_COUNT : ls[i] = color

Brightness(ls) ==
    LET RECURSIVE Sum(_)
        Sum(i) == IF i = 0 THEN 0 ELSE ls[i].r + ls[i].g + ls[i].b + Sum(i - 1)
    IN  Sum(LED_COUNT)

\* frame g is darker than frame f: no channel higher, the channel sum lower
Darker(f, g) ==
    /\ \A i \in 1..LED_COUNT : g[i].r <= f[i].r /\ g[i].g <= f[i].g /\ g[i].b <= f[i].b
    /\ Brightness(g) < Brightness(f)

\* frame g is bluer than frame f, and nothing but blue
Bluer(f, g) ==
    \A i \in 1..LED_COUNT : g[i].b > f[i].b /\ g[i].r = 0 /\ g[i].g = 0

CycleOrder == LightStates \o <<"Inactive">>

SuccessorState(s) ==
    CHOOSE n \in {CycleOrder[i + 1] : i \in {j \in 1..7 : CycleOrder[j] = s}} : TRUE

\* C1: the confirmation counter is the number of qualifying samples since
\* the last disqualifying one (any disqualifying sample puts it back to 0),
\* the wait goes on while that run is shorter than 5, and it has returned
\* only when the last 5 samples were all qualifying.
TouchNeedsFiveInARow ==
    /\ sequentialTouches = nSamples - lastDisqualifying
    /\ pc \in {"w_check", "s_enter", "s_rise", "s_fall"}
          => nSamples - lastDisqualifying < 5
    /\ pc = "touched"
          => nSamples >= 5 /\ nSamples - lastDisqualifying = 5

\* 4 qualifying samples, 1 disqualifying, 5 qualifying: returned after the 10th
FourOneFiveReturns ==
    /\ pc = "touched"
    /\ nSamples = 10
    /\ nQualifying = 9
    /\ lastDisqualifying = 5

\* C2: every step leaves lightState alone or moves it to the next state of
\* Inactive, OrangeSet, FadeOut, BetweenFades, FadeIn, BlueSet,
\* IdleUntilTouchFinished, Inactive.
SequencerOrder ==
    [][lightState' = lightState \/ lightState' = SuccessorState(lightState)]_vars

\* a full cycle has been walked, each state once, back to Inactive
FullCycleWalked == visited = CycleOrder /\ lightState = "Inactive"

\* C3: lightState is BetweenFades only with the first LED at (0,0,0).
BetweenFadesEnteredBlack ==
    lightState = "BetweenFades" => leds[1].r = 0 /\ leds[1].g = 0 /\ leds[1].b = 0

\* C4: the measurement returns false exactly when a count loop ended with
\* the accumulator at or above the timeout.
FalseIffTimedOut ==
    pc = "returned" => (result = FALSE <=> timedOut)

\* a measurement that started below the timeout and returned false
TimedOutWhileCounting ==
    pc = "returned" /\ result = FALSE /\ timedOut /\ acc0 = 0 /\ accumulator = timeout

\* C5 as stated: a true return leaves 0 < accumulator < timeout.
TrueLeavesStrictlyBetween ==
    (pc = "returned" /\ result = TRUE) => (0 < accumulator /\ accumulator < timeout)

\* C5 amended: a true return leaves start value <= accumulator < timeout,
\* and so 0 <= accumulator < timeout.
TrueLeavesBelowTimeout ==
    (pc = "returned" /\ result = TRUE)
        => (0 <= acc0 /\ acc0 <= accumulator /\ accumulator < timeout)

\* a true return with nothing counted
TrueWithZeroCounts ==
    pc = "returned" /\ result = TRUE /\ acc0 = 0 /\ accumulator = 0

\* C6: during FadeIn the blue of the accumulator colour is 20 per tick taken
\* and fewer than 12 ticks were taken; BlueSet is entered on the 12th tick
\* with every LED at (0,0,255), and the accumulator colour stays at 240.
FadeInTakesTwelveTicks ==
    /\ lightState = "FadeIn"
          => ticks < 12 /\ fadeInColor.b = 20 * ticks /\ fadeInColor.b < 235
    /\ lightState = "BlueSet"
          => /\ ticks = 12
             /\ fadeInColor = [r |-> 0, g |-> 0, b |-> 240]
             /\ AllLeds(leds, [r |-> 0, g |-> 0, b |-> 255])

\* BlueSet entered on the 12th tick
SnappedToBlue ==
    /\ lightState = "BlueSet"
    /\ ticks = 12
    /\ AllLeds(leds, [r |-> 0, g |-> 0, b |-> 255])

\* C7: a step that changes lightState to OrangeSet leaves the buffer solid
\* SHRINE_ORANGE (the CRGB of 0x55FF00), to FadeIn solid black, to BlueSet
\* solid (0,0,255), to IdleUntilTouchFinished solid black.
BoundaryFrames ==
    [][lightState' # lightState =>
          /\ lightState' = "OrangeSet"
                => AllLeds(leds', [r |-> 85, g |-> 255, b |-> 0])
          /\ lightState' = "FadeIn"
                => AllLeds(leds', [r |-> 0, g |-> 0, b |-> 0])
          /\ lightState' = "BlueSet"
                => AllLeds(leds', [r |-> 0, g |-> 0, b |-> 255])
          /\ lightState' = "IdleUntilTouchFinished"
                => AllLeds(leds', [r |-> 0, g |-> 0, b |-> 0])]_vars

\* the last boundary of a cycle, with the earlier ones behind it
IdleEnteredBlack ==
    /\ lightState = "IdleUntilTouchFinished"
    /\ Len(visited) = 7
    /\ AllLeds(leds, [r |-> 0, g |-> 0, b |-> 0])

\* C8: every frame shown by a FadeOut iteration is darker than the frame
\* shown before it, and every frame shown by a FadeIn iteration is bluer
\* than the frame shown before it, with red and green 0.
FadesMonotonic ==
    [][(pc = "loop" /\ lightState \in {"FadeOut", "FadeIn"} /\ frames' # <<>>) =>
          LET chain == <<shown>> \o frames'
          IN  \A i \in 1..(Len(chain) - 1) :
                 IF lightState = "FadeOut"
                 THEN Darker(chain[i], chain[i + 1])
                 ELSE Bluer(chain[i], chain[i + 1])]_vars

\* late in FadeIn, FadeOut behind it
ElevenBlueFrames ==
    /\ lightState = "FadeIn"
    /\ ticks = 11
    /\ AllLeds(shown, [r |-> 0, g |-> 0, b |-> 220])

White == [r |-> 255, g |-> 255, b |-> 255]

\* C9 as stated: from all channels at 255 the fade has reached black after
\* 13 ticks.
FadeReachesBlackInThirteen ==
    (pc = "fade" /\ fade0 = White /\ ticks = 13)
        => AllLeds(leds, [r |-> 0, g |-> 0, b |-> 0])

\* C9 amended: the fade scales every channel by 236/256, rounding down: a
\* channel never rises, never leaves 0..255, a channel at 0 stays at 0, and
\* from 255 a channel is at 0 after 44 ticks and not before.
FadeScalesToBlack ==
    pc = "fade" =>
        \A i \in 1..LED_COUNT :
            /\ leds[i].r \in 0..fade0.r /\ leds[i].g \in 0..fade0.g
            /\ leds[i].b \in 0..fade0.b
            /\ fade0 = White => (leds[i] = [r |-> 0, g |-> 0, b |-> 0] <=> ticks >= 44)

\* white faded to black, and one more tick applied to the black frame
WhiteFadedOut ==
    /\ pc = "fade"
    /\ fade0 = White
    /\ ticks = 45
    /\ AllLeds(leds, [r |-> 0, g |-> 0, b |-> 0])

\* C10: interrupts are off whenever control is at a count loop and on once
\* the measurement has returned.
InterruptsOffWhileCounting ==
    /\ pc \in {"s_rise", "s_fall"} => ~interrupts
    /\ pc = "returned" => interrupts

\* returned with interrupts on although the accumulator was at or above
\* the timeout on entry
ReturnedFromEarlyTimeout ==
    pc = "returned" /\ interrupts /\ acc0 >= timeout /\ result = FALSE

\* C11: waitForPedestalTouch never returns false; a step that returns
\* returns true with exactly the last 5 samples qualifying, and with a run
\* of 5 qualifying samples the only step of the wait is the return, so it
\* returns at the end of the first such run and not otherwise.
WaitOnlyReturnsTrue ==
    [][/\ waitResult' # "false"
       /\ (pc' = "touched" /\ pc # "touched")
             => waitResult' = "true" /\ nSamples - lastDisqualifying = 5
       /\ (pc = "w_loop" /\ nSamples - lastDisqualifying >= 5)
             => pc' = "touched"]_vars

\* returned true after 2 samples ending in a disqualifying one and 5 more
ReturnedTrueAfterSeven ==
    pc = "touched" /\ waitResult = "true" /\ nSamples = 7 /\ lastDisqualifying = 2

\* C12: once the measurement has returned, every bit of DDRB and of PORTB
\* other than bits 0 and 1 is as it was on entry.
OtherPortBitsKept ==
    pc = "returned" => /\ DDRB \ {0, 1} = ddrb0 \ {0, 1}
                       /\ PORTB \ {0, 1} = portb0 \ {0, 1}

\* C13: all LEDs of the frame buffer hold the same colour.
AllLedsIdentical == \A i \in 1..LED_COUNT : leds[i] = leds[1]

\* the buffer five ticks into FadeOut
FiveTicksFaded ==
    /\ lightState = "FadeOut"
    /\ ticks = 5
    /\ AllLeds(leds, [r |-> 54, g |-> 168, b |-> 0])

\* C14: with the sequencer's steps fair, whenever lightState is not
\* Inactive it is Inactive again later.
AnimationCompletes == (lightState # "Inactive") ~> (lightState = "Inactive")

\* back at the top of loop() in Inactive after a whole animation
CycleCompleted ==
    /\ pc = "loop"
    /\ lightState = "Inactive"
    /\ Len(visited) = 8
    /\ fadeInColor.b = 240

\* C15: no step of waitForPedestalTouch or timeSensePinChargeDischarge
\* changes lightState, the frame buffer, the fade timer or fadeInColor.
SensorLeavesSequencerAlone ==
    [][(pc \in {"w_loop", "w_check", "s_enter", "s_rise", "s_fall"})
          => (UNCHANGED <<lightState, leds, fadeTimer, fadeInColor>>)]_vars

\* a measurement under way in a later cycle, the sequencer's state behind it
SensingAfterACycle ==
    /\ pc = "s_rise"
    /\ bursts = 1
    /\ nSamples = 3
    /\ Len(visited) = 8
    /\ fadeInColor.b = 240

\* C16: a step that sets lightState to FadeOut or FadeIn leaves the fade
\* timer just reset, and a frame is shown in FadeOut or FadeIn only when at
\* least one 20 ms interval has passed since the phase began.
PhaseStartsWithFreshTimer ==
    [][/\ (lightState' # lightState /\ lightState' \in {"FadeOut", "FadeIn"})
             => fadeTimer' = 0 /\ phaseMillis' = 0
       /\ (pc = "loop" /\ lightState \in {"FadeOut", "FadeIn"} /\ frames' # <<>>)
             => phaseMillis' >= 20]_vars

\* the first frame of FadeIn, shown 20 ms into the phase
FirstFadeInFrame ==
    /\ lightState = "FadeIn"
    /\ ticks = 1
    /\ phaseMillis = 20
    /\ AllLeds(shown, [r |-> 0, g |-> 0, b |-> 20])

\* C17: during a call the accumulator never decreases, from a start value
\* of at most the timeout it never exceeds the timeout, and after a rising
\* phase that ended at the timeout the falling phase adds nothing.
PhasesShareOneTotal ==
    [][(pc \in {"s_enter", "s_rise", "s_fall"}) =>
          /\ accumulator' >= accumulator
          /\ acc0' <= timeout' => accumulator' <= timeout'
          /\ (pc = "s_fall" /\ timedOut) => accumulator' = accumulator]_vars

\* the rising phase counted up to the timeout
RisingPhaseTimedOut ==
    pc = "s_fall" /\ timedOut /\ acc0 < timeout /\ accumulator = timeout

\* C18: every sample of the wait started from a zero accumulator, and a
\* sample whose measurement returned false puts the counter to 0.
TimedOutSampleResets ==
    [][(pc = "w_check") =>
          /\ acc0 = 0
          /\ result = FALSE => sequentialTouches' = 0]_vars

\* four qualifying samples, then a timed-out one
FourThenTimeout ==
    /\ pc = "w_loop"
    /\ nSamples = 5
    /\ nQualifying = 4
    /\ sequentialTouches = 0
    /\ accumulator = 100000
    /\ result = FALSE

\* C19: whenever lightState is Inactive the frame buffer is solid black.
InactiveMeansBlack ==
    lightState = "Inactive" => AllLeds(leds, [r |-> 0, g |-> 0, b |-> 0])

\* waiting for a touch after a completed cycle
WaitingAgainInBlack ==
    /\ pc = "w_check"
    /\ lightState = "Inactive"
    /\ Len(visited) = 8
    /\ AllLeds(leds, [r |-> 0, g |-> 0, b |-> 0])

\* C20 as stated: an iteration in FadeOut or FadeIn that takes no tick
\* leaves lightState, the buffer and fadeInColor alone and shows nothing,
\* and no iteration shows more than one frame.
IdleIterationAndOneFramePerTick ==
    [][(pc = "loop" /\ lightState \in {"FadeOut", "FadeIn"}) =>
          /\ ticks' = ticks
                => ((UNCHANGED <<lightState, leds, fadeInColor, shown>>) /\ frames' = <<>>)
          /\ Len(frames') <= 1]_vars

\* C20 amended: an iteration that takes no tick leaves lightState, the
\* buffer and fadeInColor alone and shows nothing; an iteration that takes
\* a tick shows one frame, or two when it is the FadeIn tick that snaps to
\* blue.
IdleIterationIsNoOp ==
    [][(pc = "loop" /\ lightState \in {"FadeOut", "FadeIn"}) =>
          /\ ticks' = ticks
                => ((UNCHANGED <<lightState, leds, fadeInColor, shown>>) /\ frames' = <<>>)
          /\ ticks' # ticks
                => Len(frames') = IF lightState' = "BlueSet" THEN 2 ELSE 1]_vars

\* 8 ms into the wait for the 4th FadeIn tick
BetweenTwoTicks ==
    /\ lightState = "FadeIn"
    /\ ticks = 3
    /\ fadeTimer = 8
    /\ frames = <<>>
    /\ AllLeds(leds, [r |-> 0, g |-> 0, b |-> 60])

=============================================================================
